---- MODULE Spec2Model ----
(***************************************************************************)
(* teleport-lab: the asset-inventory viewer (src/main.js) and the          *)
(* sculpture viewer (src/sculptures/main.js) as state machines.            *)
(*                                                                         *)
(* JavaScript runs one handler at a time; every action below is one       *)
(* handler or one continuation of an async function, from the point where  *)
(* it is resumed to its next await.  Continuations that are ready at the   *)
(* same time may run in any order.                                         *)
(***************************************************************************)
EXTENDS Integers, Sequences, FiniteSets, TLC

\* ---------------------------------------------------------------- constants
\* src/main.js:8-11
MODEL_CONCURRENCY == 1
IMAGE_CONCURRENCY == 8
STATUS_UPDATE_EVERY == 10
YIELD_TO_UI_EVERY == 12

\* ------------------------------------------------------------------- bounds
\* longest manifest whose entries are drawn freely
MaxAssets == 2
\* loadable entries that follow a run of unsupported entries
MaxTail == 1

Max(a, b) == IF a >= b THEN a ELSE b
Min(a, b) == IF a <= b THEN a ELSE b

\* ------------------------------------------------------------ the manifest
\* mapped_file values; "" stands for a missing (falsy) mapped_file
ModelFiles == {"m.glb"}
ImageFiles == {"a.png", "b.png"}
NoFile == ""

\* a null entry of inventory.assets
NullAsset == [assetType |-> "<null>", mapped_file |-> NoFile]
UnsupportedAsset == [assetType |-> "audio", mapped_file |-> NoFile]

LoadableAssets ==
    [assetType : {"model"}, mapped_file : ModelFiles \cup {NoFile}]
        \cup [assetType : {"image"}, mapped_file : ImageFiles \cup {NoFile}]

AssetRecords == LoadableAssets \cup {NullAsset, UnsupportedAsset}

SeqsUpTo(S, n) == UNION {[1..k -> S] : k \in 0..n}

\* runs of unsupported entries that bring totals.loaded next to a multiple of
\* STATUS_UPDATE_EVERY or YIELD_TO_UI_EVERY
PadLengths == {STATUS_UPDATE_EVERY - 1, YIELD_TO_UI_EVERY - 1}

Pad(n) == [i \in 1..n |-> UnsupportedAsset]

Manifests(maxAssets, maxTail) ==
    SeqsUpTo(AssetRecords, maxAssets)
        \cup {Pad(n) \o tail : n \in PadLengths,
                               tail \in SeqsUpTo(LoadableAssets, maxTail) \ {<<>>}}

\* the documents: { assets: [...] }, and one whose assets is not an array
Documents(maxAssets, maxTail) ==
    [isArray : {TRUE}, assets : Manifests(maxAssets, maxTail)]
        \cup {[isArray |-> FALSE, assets |-> <<>>]}

VARIABLES
    page,                   \* which of the two pages is open
    inventory,              \* the document served at INVENTORY_PATH
    mainPc,                 \* where main() of src/main.js is suspended
    assets,                 \* inventory.assets
    totals,                 \* { total, ok, fallback, loaded }
    status,                 \* statusEl.textContent
    world,                  \* world.children
    promises,               \* every promise made by the two loaders
    texturePromiseCache,    \* fileName -> promise
    modelTemplateCache,     \* fileName -> promise
    items, index, concurrency, runners,   \* the running runWithConcurrency call
    invoked,                \* worker calls made per element of items
    mixers,                 \* mixers.length
    hasAnimatedModels, renderLoopActive, frameRequested,
    animationLoop,          \* renderFrame is registered with the renderer
    needResize,             \* the canvas size differs from its display size
    renderTick,             \* flips at every renderer.render(scene, camera)
    renderPending,          \* requestRender was called and no frame drawn since
    framings,               \* calls of fitCameraToObject(camera, world, ...)
    \* src/sculptures/main.js
    sculpture,              \* the layers of the document served for the sculpture
    sculptPc,               \* where main() of src/sculptures/main.js is
    loadingVisible,         \* #loading-indicator is shown
    statusAlert,            \* the alert in #status-alert
    statusLog,              \* the alerts showStatus has put there, in order
    matCache,               \* the ids that have a material
    textureReadyCallbacks,  \* id -> callbacks, each named by its layer's place
    pendingTextures, textureWarningShown,
    textureLoads,           \* every loader.load call: id and state
    called,                 \* calls made of each layer's texture-ready callback
    renderRequested,
    frameCallbacks,         \* requestAnimationFrame(render) callbacks outstanding
    \* the functions checked on their own
    transform,              \* asset.transform
    object3D,               \* position, quaternion and scale of the node
    tmpBox,                 \* tmpBox.setFromObject(object3D)
    offset,                 \* the offset argument of fitCameraToObject
    camera,                 \* the camera, scene.fog.density, controls.target
    scenePc,                \* which of the functions runs
    mirrorXAxisOnImport     \* VIEWER_CONFIG.mirrorXAxisOnImport

loaderVars == <<promises, texturePromiseCache, modelTemplateCache>>
runnerVars == <<items, index, concurrency, runners, invoked>>
renderVars == <<hasAnimatedModels, renderLoopActive, frameRequested,
                animationLoop, renderPending>>
inventoryVars == <<inventory, mainPc, assets, totals, status, world, loaderVars,
                   runnerVars, mixers, renderVars, needResize, renderTick,
                   framings>>
sculptVars == <<sculpture, sculptPc, loadingVisible, statusAlert, statusLog, matCache,
                textureReadyCallbacks, pendingTextures, textureWarningShown,
                textureLoads, called, renderRequested, frameCallbacks>>
sceneVars == <<transform, object3D, tmpBox, offset, camera, scenePc,
               mirrorXAxisOnImport>>
vars == <<page, inventoryVars, sculptVars, sceneVars>>

\* --------------------------------------------------------------- JS numbers
\* A number is a fraction in lowest terms, an infinity or NaN.  MaxFloat stands
\* for Number.MAX_VALUE on a reduced scale: a result whose size exceeds it is
\* an infinity, as in IEEE 754 arithmetic.
MaxFloat == 1000000

RECURSIVE GCD(_, _)
GCD(a, b) == IF b = 0 THEN a ELSE GCD(b, a % b)

AbsInt(n) == IF n < 0 THEN -n ELSE n

NaN == [k |-> "nan", n |-> 0, d |-> 1]
PosInf == [k |-> "inf", n |-> 1, d |-> 1]
NegInf == [k |-> "inf", n |-> -1, d |-> 1]

Overflow(n, d) ==
    IF AbsInt(n) \div d > MaxFloat
           \/ (AbsInt(n) \div d = MaxFloat /\ AbsInt(n) % d # 0)
    THEN IF n < 0 THEN NegInf ELSE PosInf
    ELSE [k |-> "fin", n |-> n, d |-> d]

\* the number n / d, for d > 0
Rat(n, d) ==
    LET g == GCD(AbsInt(n), d)
    IN  Overflow(n \div g, d \div g)

Zero == Rat(0, 1)
One == Rat(1, 1)

\* Number.isFinite(n)
IsFinite(a) == a.k = "fin"

Sign(a) == IF a.n < 0 THEN -1 ELSE IF a.n > 0 THEN 1 ELSE 0

Infinity(s) == IF s < 0 THEN NegInf ELSE PosInf

Neg(a) == [a EXCEPT !.n = -a.n]

\* Math.abs(a)
MathAbs(a) == [a EXCEPT !.n = AbsInt(a.n)]

\* a + b
Add(a, b) ==
    IF a.k = "nan" \/ b.k = "nan" THEN NaN
    ELSE IF a.k = "inf" /\ b.k = "inf" THEN IF a = b THEN a ELSE NaN
    ELSE IF a.k = "inf" THEN a
    ELSE IF b.k = "inf" THEN b
    ELSE Rat(a.n * b.d + b.n * a.d, a.d * b.d)

\* a - b
Sub(a, b) == Add(a, Neg(b))

\* a * b
Mul(a, b) ==
    IF a.k = "nan" \/ b.k = "nan" THEN NaN
    ELSE IF a.k = "inf" \/ b.k = "inf"
         THEN IF Sign(a) * Sign(b) = 0 THEN NaN ELSE Infinity(Sign(a) * Sign(b))
    ELSE Rat(a.n * b.n, a.d * b.d)

\* a / b
Div(a, b) ==
    IF a.k = "nan" \/ b.k = "nan" THEN NaN
    ELSE IF a.k = "inf"
         THEN IF b.k = "inf" THEN NaN
              ELSE Infinity(IF Sign(b) < 0 THEN -Sign(a) ELSE Sign(a))
    ELSE IF b.k = "inf" THEN Zero
    ELSE IF b.n = 0 THEN IF a.n = 0 THEN NaN ELSE Infinity(Sign(a))
    ELSE Rat(a.n * b.d * Sign(b), a.d * AbsInt(b.n))

\* a <= b; false when either is NaN
LessEq(a, b) ==
    /\ a.k # "nan"
    /\ b.k # "nan"
    /\ \/ a = b
       \/ a = NegInf
       \/ b = PosInf
       \/ a.k = "fin" /\ b.k = "fin" /\ a.n * b.d <= b.n * a.d

\* a < b
Less(a, b) == LessEq(a, b) /\ a # b

\* Math.max(a, b) and Math.min(a, b): NaN when either argument is NaN
MathMax(a, b) ==
    IF a.k = "nan" \/ b.k = "nan" THEN NaN
    ELSE IF LessEq(a, b) THEN b ELSE a

MathMin(a, b) ==
    IF a.k = "nan" \/ b.k = "nan" THEN NaN
    ELSE IF LessEq(a, b) THEN a ELSE b

\* ---------------------------------------------------------------- JS values
\* A value read from the parsed JSON: its type, its number when it is one and
\* its text when it is a string or a boolean.
Undefined == [t |-> "undefined", n |-> NaN, s |-> ""]
Null == [t |-> "null", n |-> NaN, s |-> ""]
Num(x) == [t |-> "number", n |-> x, s |-> ""]
Str(s) == [t |-> "string", n |-> NaN, s |-> s]
Bool(s) == [t |-> "boolean", n |-> NaN, s |-> s]
EmptyObject == [t |-> "object", n |-> NaN, s |-> ""]

\* Number(string) for the strings of the manifests
StringToNumber(s) ==
    CASE s = "" -> Zero
      [] s = "3" -> Rat(3, 1)
      [] OTHER -> NaN

\* Number(value)
ToNumber(value) ==
    CASE value.t = "undefined" -> NaN
      [] value.t = "null" -> Zero
      [] value.t = "number" -> value.n
      [] value.t = "boolean" -> IF value.s = "true" THEN One ELSE Zero
      [] value.t = "string" -> StringToNumber(value.s)
      [] OTHER -> NaN

asNumber(value, fallback) ==
    LET n == ToNumber(value)
    IN  IF IsFinite(n) THEN n ELSE fallback

\* a clamp without its upper end
clampFromBelow(value, min, max) == MathMax(min, value)

clamp(value, min, max) == MathMin(max, MathMax(min, value))

isFiniteVec3(v) == IsFinite(v.x) /\ IsFinite(v.y) /\ IsFinite(v.z)

isFiniteBox(box) == isFiniteVec3(box.min) /\ isFiniteVec3(box.max)

\* ------------------------------------------------------------ applyTransform
Axes == {"x", "y", "z"}

NoFields == [c \in {"x", "y", "z", "w"} |-> Undefined]

\* What a field of a transform can hold: nothing, null, a number, an object
\* with the keys x, y, z, w (a key that is absent reads as undefined) or an
\* array.
Missing == [t |-> "undefined", f |-> NoFields, a |-> <<>>]
NullSource == [t |-> "null", f |-> NoFields, a |-> <<>>]
NumberSource == [t |-> "number", f |-> NoFields, a |-> <<>>]
ObjectSource(x, y, z, w) ==
    [t |-> "object", f |-> [c \in {"x", "y", "z", "w"} |->
        CASE c = "x" -> x [] c = "y" -> y [] c = "z" -> z [] OTHER -> w],
     a |-> <<>>]
ArraySource(a) == [t |-> "array", f |-> NoFields, a |-> a]

\* ref.x, for ref = source || {}
Field(source, c) == IF source.t = "object" THEN source.f[c] ELSE Undefined

\* "x" in r
HasKey(source, c) == source.t = "object" /\ source.f[c].t # "undefined"

getVector3(source, fallback) ==
    [x |-> asNumber(Field(source, "x"), fallback.x),
     y |-> asNumber(Field(source, "y"), fallback.y),
     z |-> asNumber(Field(source, "z"), fallback.z)]

\* A unit quaternion is written by the shortest vector of integers that points
\* its way, and the quaternion of Euler angles other than (0, 0, 0) by the
\* angles.
Quat(form, x, y, z, w) == [form |-> form, x |-> x, y |-> y, z |-> z, w |-> w]

Identity == Quat("unit", Zero, Zero, Zero, One)

\* c as a multiple of 1 / (the product of the four denominators)
Scaled(q, c) == c.n * ((q.x.d * q.y.d * q.z.d * q.w.d) \div c.d)

\* Quaternion.normalize(): the identity for a quaternion of length 0
normalize(q) ==
    IF q.form = "euler" THEN q
    ELSE LET x == Scaled(q, q.x)
             y == Scaled(q, q.y)
             z == Scaled(q, q.z)
             w == Scaled(q, q.w)
             g == GCD(GCD(AbsInt(x), AbsInt(y)), GCD(AbsInt(z), AbsInt(w)))
         IN  IF g = 0 THEN Identity
             ELSE Quat("unit", Rat(x \div g, 1), Rat(y \div g, 1),
                       Rat(z \div g, 1), Rat(w \div g, 1))

\* Quaternion.setFromEuler(new THREE.Euler(x, y, z))
setFromEuler(x, y, z) ==
    IF x = Zero /\ y = Zero /\ z = Zero THEN Identity
    ELSE Quat("euler", x, y, z, Zero)

\* a mirroring that negates one rotation component only
mirroredYOnly(q) == normalize([q EXCEPT !.y = Neg(q.y)])

\* q.set(q.x, -q.y, -q.z, q.w).normalize(); for the quaternion of the Euler
\* angles (x, y, z) that is the quaternion of (x, -y, -z)
mirrored(q) == normalize([q EXCEPT !.y = Neg(q.y), !.z = Neg(q.z)])

getQuaternion(r) ==
    IF r.t = "array" /\ Len(r.a) = 4
    THEN normalize(Quat("unit", asNumber(r.a[1], Zero), asNumber(r.a[2], Zero),
                        asNumber(r.a[3], Zero), asNumber(r.a[4], One)))
    ELSE IF \A c \in {"x", "y", "z", "w"} : HasKey(r, c)
    THEN normalize(Quat("unit", asNumber(r.f["x"], Zero), asNumber(r.f["y"], Zero),
                        asNumber(r.f["z"], Zero), asNumber(r.f["w"], One)))
    ELSE IF r.t \in {"object", "array"}
    THEN setFromEuler(asNumber(Field(r, "x"), Zero),
                      asNumber(Field(r, "y"), Zero),
                      asNumber(Field(r, "z"), Zero))
    ELSE Identity

\* asset.transform: an object with the three fields, or nothing
NoTransform ==
    [t |-> "null", position |-> Missing, rotation |-> Missing, scale |-> Missing]

Transform(position, rotation, scale) ==
    [t |-> "object", position |-> position, rotation |-> rotation,
     scale |-> scale]

\* t.position, t.rotation, t.scale for t = transform || {}
TransformField(tr, name) ==
    IF tr.t # "object" THEN Missing
    ELSE CASE name = "position" -> tr.position
           [] name = "rotation" -> tr.rotation
           [] OTHER -> tr.scale

\* new THREE.Group(), new THREE.Mesh(...)
NewObject3D ==
    [position |-> [x |-> Zero, y |-> Zero, z |-> Zero],
     quaternion |-> Identity,
     scale |-> [x |-> One, y |-> One, z |-> One]]

applyTransform(node, tr) ==
    LET p == getVector3(TransformField(tr, "position"),
                        [x |-> Zero, y |-> Zero, z |-> Zero])
        s == getVector3(TransformField(tr, "scale"),
                        [x |-> One, y |-> One, z |-> One])
        tmpQuat == getQuaternion(TransformField(tr, "rotation"))
    IN  IF mirrorXAxisOnImport
        THEN [position |-> [p EXCEPT !.x = Neg(p.x)],
              quaternion |-> mirrored(tmpQuat),
              scale |-> s]
        ELSE [position |-> p, quaternion |-> tmpQuat, scale |-> s]

\* --------------------------------------------------------- fitCameraToObject
\* Math.tan(fov / 2) for the camera's fov of 50 degrees, 0.46630..., as 7 / 15
TanHalfFov == Rat(7, 15)

Vec(x, y, z) == [x |-> x, y |-> y, z |-> z]

\* the given hundredths of the largest number
Fraction(percent) == Rat((MaxFloat \div 100) * percent, 1)

\* new THREE.Box3(): min = +Infinity, max = -Infinity
EmptyBox == [min |-> Vec(PosInf, PosInf, PosInf), max |-> Vec(NegInf, NegInf, NegInf)]

\* Box3.isEmpty()
isEmpty(box) ==
    \/ Less(box.max.x, box.min.x)
    \/ Less(box.max.y, box.min.y)
    \/ Less(box.max.z, box.min.z)

\* Box3.getSize(target)
getSize(box) ==
    IF isEmpty(box) THEN Vec(Zero, Zero, Zero)
    ELSE Vec(Sub(box.max.x, box.min.x), Sub(box.max.y, box.min.y),
             Sub(box.max.z, box.min.z))

\* Box3.getCenter(target)
getCenter(box) ==
    IF isEmpty(box) THEN Vec(Zero, Zero, Zero)
    ELSE Vec(Mul(Add(box.min.x, box.max.x), Rat(1, 2)),
             Mul(Add(box.min.y, box.max.y), Rat(1, 2)),
             Mul(Add(box.min.z, box.max.z), Rat(1, 2)))

\* the camera, the fog and the controls as the script creates them
SceneAtStart ==
    [position |-> Vec(Zero, Rat(10, 1), Rat(45, 1)),
     near |-> Rat(1, 10),
     far |-> Rat(5000, 1),
     fogDensity |-> Rat(16, 10000),
     target |-> Vec(Zero, Zero, Zero)]

\* the two early returns of fitCameraToObject are not taken
Repositions(box) ==
    /\ ~isEmpty(box)
    /\ isFiniteBox(box)
    /\ isFiniteVec3(getSize(box))
    /\ isFiniteVec3(getCenter(box))

fitCameraToObject(sc, box, factor) ==
    IF ~Repositions(box) THEN sc
    ELSE LET tmpSize == getSize(box)
             tmpCenter == getCenter(box)
             maxDim == MathMax(MathMax(tmpSize.x, tmpSize.y), tmpSize.z)
             safeMaxDim == MathMax(maxDim, One)
             distance == MathAbs(Div(Div(safeMaxDim, Rat(2, 1)), TanHalfFov))
             cameraZ == clamp(Mul(distance, asNumber(factor, Rat(13, 10))),
                              Rat(10, 1), Rat(280, 1))
             adaptiveDensity == Div(Rat(45, 100), MathMax(cameraZ, One))
         IN  [position |-> Vec(tmpCenter.x,
                               Add(tmpCenter.y, Mul(safeMaxDim, Rat(8, 100))),
                               Add(tmpCenter.z, cameraZ)),
              near |-> MathMax(MathMin(Div(safeMaxDim, Rat(1000, 1)), Rat(2, 10)),
                               Rat(1, 100)),
              far |-> MathMax(MathMax(Mul(safeMaxDim, Rat(20, 1)),
                                      Mul(cameraZ, Rat(8, 1))),
                              Rat(1200, 1)),
              fogDensity |-> clamp(adaptiveDensity, Rat(18, 100000),
                                   Rat(12, 10000)),
              target |-> tmpCenter]

\* no call of the two functions is under way
SceneAtRest ==
    /\ transform = NoTransform
    /\ object3D = NewObject3D
    /\ tmpBox = EmptyBox
    /\ offset = Undefined
    /\ camera = SceneAtStart
    /\ scenePc = "idle"
    /\ mirrorXAxisOnImport = TRUE

\* ------------------------------------------------------ render-loop scheduler
\* The render-loop state as one record, for the functions that read and write it.
RS ==
    [hasAnimatedModels |-> hasAnimatedModels,
     renderLoopActive  |-> renderLoopActive,
     frameRequested    |-> frameRequested,
     animationLoop     |-> animationLoop,
     renderPending     |-> renderPending]

SetRS(rs) ==
    /\ hasAnimatedModels' = rs.hasAnimatedModels
    /\ renderLoopActive' = rs.renderLoopActive
    /\ frameRequested' = rs.frameRequested
    /\ animationLoop' = rs.animationLoop
    /\ renderPending' = rs.renderPending

\* a loop that runs for animated models only
shouldRunAnimatedOnly(rs) == rs.hasAnimatedModels

\* const shouldRun = hasAnimatedModels || frameRequested
shouldRun(rs) == rs.hasAnimatedModels \/ rs.frameRequested

\* a scheduler that starts the loop and never stops it
ensureRenderLoopStateNoStop(rs) ==
    IF shouldRun(rs) /\ ~rs.renderLoopActive
    THEN [rs EXCEPT !.animationLoop = TRUE, !.renderLoopActive = TRUE]
    ELSE rs

ensureRenderLoopState(rs) ==
    IF shouldRun(rs) /\ ~rs.renderLoopActive
    THEN [rs EXCEPT !.animationLoop = TRUE, !.renderLoopActive = TRUE]
    ELSE IF ~shouldRun(rs) /\ rs.renderLoopActive
         THEN [rs EXCEPT !.animationLoop = FALSE, !.renderLoopActive = FALSE]
         ELSE rs

\* a request that sets the flag and leaves the loop as it is
requestRenderFlagOnly(rs) ==
    [rs EXCEPT !.frameRequested = TRUE, !.renderPending = TRUE]

requestRender(rs) ==
    ensureRenderLoopState([rs EXCEPT !.frameRequested = TRUE,
                                     !.renderPending = TRUE])

\* if (!frameRequested) { ...; return; } decides whether the frame is drawn
skipFrame(requested) == ~requested

\* a renderFrame that leaves the flag as it finds it after drawing
renderFrameKeepsFlag(rs, resized) ==
    LET r1 == IF resized THEN [rs EXCEPT !.frameRequested = TRUE] ELSE rs
        r2 == IF r1.hasAnimatedModels
              THEN [r1 EXCEPT !.frameRequested = TRUE] ELSE r1
    IN  IF skipFrame(r2.frameRequested)
        THEN [rs    |-> IF ~r2.hasAnimatedModels
                        THEN ensureRenderLoopState(r2) ELSE r2,
              drawn |-> FALSE]
        ELSE LET r3 == [r2 EXCEPT !.renderPending = FALSE]
             IN  [rs    |-> IF ~r3.hasAnimatedModels
                            THEN ensureRenderLoopState(r3) ELSE r3,
                  drawn |-> TRUE]

\* renderFrame(); resized is what resizeRendererToDisplaySize returns.
\* The result carries the record and whether renderer.render was called.
renderFrame(rs, resized) ==
    LET r1 == IF resized THEN [rs EXCEPT !.frameRequested = TRUE] ELSE rs
        r2 == IF r1.hasAnimatedModels
              THEN [r1 EXCEPT !.frameRequested = TRUE] ELSE r1
    IN  IF skipFrame(r2.frameRequested)
        THEN [rs    |-> IF ~r2.hasAnimatedModels
                        THEN ensureRenderLoopState(r2) ELSE r2,
              drawn |-> FALSE]
        ELSE LET r3 == [r2 EXCEPT !.frameRequested = FALSE,
                                  !.renderPending = FALSE]
             IN  [rs    |-> IF ~r3.hasAnimatedModels
                            THEN ensureRenderLoopState(r3) ELSE r3,
                  drawn |-> TRUE]

\* registerModelAnimations(root, clips); hasClips is clips.length > 0
registerModelAnimations(rs, hasClips) ==
    IF ~hasClips THEN rs
    ELSE IF ~rs.hasAnimatedModels
         THEN ensureRenderLoopState([rs EXCEPT !.hasAnimatedModels = TRUE])
         ELSE rs

\* ------------------------------------------------- loaders and their caches
\* The loader and runner state as one record, for the synchronous code that
\* runs inside one handler.
M ==
    [assets |-> assets, promises |-> promises,
     texturePromiseCache |-> texturePromiseCache,
     modelTemplateCache |-> modelTemplateCache,
     items |-> items, index |-> index, concurrency |-> concurrency,
     runners |-> runners, invoked |-> invoked]

SetM(m) ==
    /\ promises' = m.promises
    /\ texturePromiseCache' = m.texturePromiseCache
    /\ modelTemplateCache' = m.modelTemplateCache
    /\ items' = m.items
    /\ index' = m.index
    /\ concurrency' = m.concurrency
    /\ runners' = m.runners
    /\ invoked' = m.invoked

NewPromise(loader, fileName) ==
    [loader |-> loader, file |-> fileName, state |-> "pending",
     animations |-> FALSE]

\* a loader that looks nothing up
CacheHasNothing(cache, fileName) == FALSE

\* Map.prototype.has
CacheHas(cache, fileName) == fileName \in DOMAIN cache

\* loadTextureByFile(fileName): the promise returned is
\* texturePromiseCache[fileName] of the result
loadTextureByFile(m, fileName) ==
    IF CacheHas(m.texturePromiseCache, fileName) THEN m
    ELSE [m EXCEPT
            !.promises = Append(@, NewPromise("texture", fileName)),
            !.texturePromiseCache = (fileName :> (Len(m.promises) + 1)) @@ @]

\* loadModelTemplate(fileName)
loadModelTemplate(m, fileName) ==
    IF CacheHas(m.modelTemplateCache, fileName) THEN m
    ELSE [m EXCEPT
            !.promises = Append(@, NewPromise("model", fileName)),
            !.modelTemplateCache = (fileName :> (Len(m.promises) + 1)) @@ @]

\* ---------------------------------------------------------- runWithConcurrency
\* A runner is at one of:
\*   "load"    its handleAsset call awaits addAsset, which awaits promise
\*   "added"   addAsset has fulfilled; handleAsset is to be resumed
\*   "threw"   addAsset has rejected; handleAsset is to be resumed
\*   "frame"   handleAsset awaits nextFrame()
\*   "settled" the handleAsset call has fulfilled; the runner is to be resumed
\*   "done"    the runner has returned
WorkerPcs == {"load", "added", "threw", "frame"}

\* addAsset(asset) up to its first await, called by handleAsset for runner r
addAsset(m, r, asset) ==
    IF asset.assetType = "model" /\ asset.mapped_file # NoFile
    THEN LET m1 == loadModelTemplate(m, asset.mapped_file)
         IN  [m1 EXCEPT !.runners[r].pc = "load",
                        !.runners[r].promise =
                            m1.modelTemplateCache[asset.mapped_file]]
    ELSE IF asset.assetType = "image" /\ asset.mapped_file # NoFile
    THEN LET m1 == loadTextureByFile(m, asset.mapped_file)
         IN  [m1 EXCEPT !.runners[r].pc = "load",
                        !.runners[r].promise =
                            m1.texturePromiseCache[asset.mapped_file]]
    \* missing mapped_file, unsupported type, or a property read of null
    ELSE [m EXCEPT !.runners[r].pc = "threw", !.runners[r].promise = 0]

\* index += 2
NextIndexSkipping(i) == i + 2

\* index += 1
NextIndex(i) == i + 1

\* runner(): the loop test and, if it passes, the call of worker(items[current])
runner(m, r) ==
    IF m.index < Len(m.items)
    THEN LET current == m.index
             m1 == [m EXCEPT !.index = NextIndex(@),
                             !.runners[r].current = current,
                             !.invoked[current + 1] = @ + 1]
         IN  addAsset(m1, r, m.assets[m.items[current + 1]])
    ELSE [m EXCEPT !.runners[r].pc = "done"]

\* a pool of one runner per item, whatever the limit
safeConcurrencyUnlimited(limit, n) == Max(1, n)

\* a pool without runners
safeConcurrencyNone(limit, n) == 0

safeConcurrency(limit, n) == Max(1, Min(limit, IF n = 0 THEN 1 ELSE n))

RECURSIVE StartRunners(_, _, _)
StartRunners(m, r, k) ==
    IF r > k THEN m ELSE StartRunners(runner(m, r), r + 1, k)

\* runWithConcurrency(theItems, limit, handleAsset) up to await Promise.all
runWithConcurrency(m, theItems, limit) ==
    LET k == safeConcurrency(limit, Len(theItems))
        m0 == [m EXCEPT
                 !.items = theItems, !.index = 0, !.concurrency = limit,
                 !.runners = [r \in 1..k |->
                                [pc |-> "new", current |-> 0, promise |-> 0]],
                 !.invoked = [i \in 1..Len(theItems) |-> 0]]
    IN  StartRunners(m0, 1, k)

AllRunnersDone == \A r \in DOMAIN runners : runners[r].pc = "done"

\* the worker calls that have started and not settled
InFlight == Cardinality({r \in DOMAIN runners : runners[r].pc \in WorkerPcs})

\* ------------------------------------------------------------ inventory main
Indices(manifest, Keep(_)) ==
    SelectSeq([i \in 1..Len(manifest) |-> i], LAMBDA i : Keep(manifest[i]))

\* the three filters of main()
IsModelAsset(asset) == asset # NullAsset /\ asset.assetType = "model"
IsImageAsset(asset) == asset # NullAsset /\ asset.assetType = "image"
IsOtherAsset(asset) ==
    asset = NullAsset \/ (asset.assetType # "model" /\ asset.assetType # "image")

modelAssets(manifest) == Indices(manifest, IsModelAsset)
imageAssets(manifest) == Indices(manifest, IsImageAsset)
otherAssets(manifest) == Indices(manifest, IsOtherAsset)

\* the node addFallbackPlane adds to world for manifest entry i
FallbackNode(i) == [asset |-> i, kind |-> "fallback"]

\* addFallbackPlane(asset, reason): world.add(holder)
addFallbackPlane(w, i) == Append(w, FallbackNode(i))

StatusText(text, t) ==
    [text |-> text, loaded |-> t.loaded, total |-> t.total,
     ok |-> t.ok, fallback |-> t.fallback]

NoTotals == [total |-> 0, ok |-> 0, fallback |-> 0, loaded |-> 0]

\* err.message of what main() can throw
ErrorMessages == {"Failed to fetch", "No se pudo cargar", "Unexpected token"}

\* an error handler that leaves the status text as it was
MainCatchNoStatus(message) ==
    /\ mainPc' = "failed"
    /\ SetRS(requestRender(RS))
    /\ UNCHANGED <<sculptVars, sceneVars, page, inventory, assets, totals, status, world,
                   loaderVars, runnerVars, mixers, needResize, renderTick,
                   framings>>

\* main().catch: setStatus(err.message); requestRender()
MainCatch(message) ==
    /\ mainPc' = "failed"
    /\ status' = StatusText(message, NoTotals)
    /\ SetRS(requestRender(RS))
    /\ UNCHANGED <<sculptVars, sceneVars, page, inventory, assets, totals, world, loaderVars, runnerVars, mixers,
                   needResize, renderTick, framings>>

\* fetch(INVENTORY_PATH) rejects, or answers with !response.ok
FetchFails ==
    /\ page = "inventory"
    /\ mainPc = "fetch"
    /\ \E message \in {"Failed to fetch", "No se pudo cargar"} :
        MainCatch(message)

FetchOk ==
    /\ page = "inventory"
    /\ mainPc = "fetch"
    /\ mainPc' = "json"
    /\ UNCHANGED <<sculptVars, sceneVars, page, inventory, assets, totals, status, world, loaderVars, runnerVars,
                   mixers, renderVars, needResize, renderTick, framings>>

\* response.json() rejects, or the document is null (inventory.assets throws)
JsonFails ==
    /\ page = "inventory"
    /\ mainPc = "json"
    /\ MainCatch("Unexpected token")

\* the for loop over otherAssets, from entry n on
RECURSIVE FallbackAll(_, _, _)
FallbackAll(w, others, n) ==
    IF n > Len(others) THEN w
    ELSE FallbackAll(addFallbackPlane(w, others[n]), others, n + 1)

\* response.json() fulfils: main() from there to the first
\* await runWithConcurrency(modelAssets, ...); a document whose assets is not
\* an array gives the empty manifest
JsonParsed ==
    /\ page = "inventory"
    /\ mainPc = "json"
    /\ LET manifest == IF inventory.isArray THEN inventory.assets ELSE <<>>
           others == otherAssets(manifest)
       IN  /\ assets' = manifest
           /\ totals' = [total |-> Len(manifest), ok |-> 0,
                         fallback |-> Len(others), loaded |-> Len(others)]
           /\ status' = StatusText("Cargando assets: 0/", [NoTotals EXCEPT
                                       !.total = Len(manifest)])
           /\ world' = FallbackAll(world, others, 1)
           /\ SetM(runWithConcurrency([M EXCEPT !.assets = manifest],
                                      modelAssets(manifest), MODEL_CONCURRENCY))
    /\ mainPc' = "models"
    /\ UNCHANGED <<sculptVars, sceneVars, page, inventory, mixers, renderVars, needResize, renderTick, framings>>

\* a main() that starts the image batch without awaiting the model batch
ModelsDoneEarly ==
    /\ page = "inventory"
    /\ mainPc = "models"
    /\ SetM(runWithConcurrency(M, imageAssets(assets), IMAGE_CONCURRENCY))
    /\ mainPc' = "images"
    /\ UNCHANGED <<sculptVars, sceneVars, page, inventory, assets, totals, status, world, mixers, renderVars,
                   needResize, renderTick, framings>>

\* Promise.all(runners) of the model batch fulfils: main() starts the image batch
ModelsDone ==
    /\ page = "inventory"
    /\ mainPc = "models"
    /\ AllRunnersDone
    /\ SetM(runWithConcurrency(M, imageAssets(assets), IMAGE_CONCURRENCY))
    /\ mainPc' = "images"
    /\ UNCHANGED <<sculptVars, sceneVars, page, inventory, assets, totals, status, world, mixers, renderVars,
                   needResize, renderTick, framings>>

\* Promise.all(runners) of the image batch fulfils: main() runs to its end
\* tmpBox.setFromObject(world): empty for an empty world, else the box the
\* placed nodes span, here a small one, a large one or one near the largest
\* numbers
PlacedBoxes ==
    {[min |-> Vec(Zero, Zero, Zero), max |-> Vec(One, One, Zero)],
     [min |-> Vec(Zero, Zero, Zero), max |-> Vec(Rat(400, 1), One, Rat(5, 1))],
     [min |-> Vec(Neg(Fraction(48)), Zero, Zero),
      max |-> Vec(Fraction(48), One, Zero)]}

WorldBoxes(w) == IF w = <<>> THEN {EmptyBox} ELSE PlacedBoxes

\* fitCameraToObject(camera, world, controls, 1.4), the one call main() makes,
\* on the camera as the script created it
WorldFit ==
    [box \in PlacedBoxes \cup {EmptyBox} |->
        [camera |-> fitCameraToObject(SceneAtStart, box, Num(Rat(14, 10))),
         pc |-> IF Repositions(box) THEN "fitted" ELSE "returned"]]

\* a main() that returns after the image batch without framing the world
ImagesDoneUnframed ==
    /\ page = "inventory"
    /\ mainPc = "images"
    /\ AllRunnersDone
    /\ SetRS(requestRender(RS))
    /\ status' = StatusText("Listo", totals)
    /\ mainPc' = "done"
    /\ UNCHANGED <<sculptVars, sceneVars, page, inventory, assets, totals,
                   world, loaderVars, runnerVars, mixers, needResize,
                   renderTick, framings>>

ImagesDone ==
    /\ page = "inventory"
    /\ mainPc = "images"
    /\ AllRunnersDone
    /\ framings' = framings + 1
    /\ \E box \in WorldBoxes(world) :
        /\ tmpBox' = box
        /\ offset' = Num(Rat(14, 10))
        /\ camera' = WorldFit[box].camera
        /\ scenePc' = WorldFit[box].pc
    /\ SetRS(requestRender(RS))
    /\ status' = StatusText("Listo", totals)
    /\ mainPc' = "done"
    /\ UNCHANGED <<sculptVars, transform, object3D, mirrorXAxisOnImport, page, inventory, assets,
                   totals, world, loaderVars, runnerVars, mixers, needResize,
                   renderTick>>

\* ------------------------------------------------------------- asset loading
LoadOutcomes(loader) ==
    IF loader = "model"
    THEN {[state |-> "fulfilled", animations |-> FALSE],
          [state |-> "fulfilled", animations |-> TRUE],
          [state |-> "rejected", animations |-> FALSE]}
    ELSE {[state |-> "fulfilled", animations |-> FALSE],
          [state |-> "rejected", animations |-> FALSE]}

\* the library calls onLoad or onError of a load: the promise settles
SettleLoad ==
    /\ page = "inventory"
    /\ \E p \in DOMAIN promises :
        /\ promises[p].state = "pending"
        /\ \E o \in LoadOutcomes(promises[p].loader) :
            promises' = [promises EXCEPT ![p].state = o.state,
                                         ![p].animations = o.animations]
    /\ UNCHANGED <<sculptVars, sceneVars, page, inventory, mainPc, assets, totals, status, world,
                   texturePromiseCache, modelTemplateCache, runnerVars, mixers,
                   renderVars, needResize, renderTick, framings>>

AssetOf(r) == items[runners[r].current + 1]

\* addImageAsset / addModelAsset resumed after their await
AddAssetResume(r) ==
    /\ page = "inventory"
    /\ runners[r].pc = "load"
    /\ LET p == promises[runners[r].promise]
       IN  /\ p.state # "pending"
           /\ IF p.state = "rejected"
              THEN /\ runners' = [runners EXCEPT ![r].pc = "threw"]
                   /\ UNCHANGED <<world, mixers, renderVars>>
              ELSE /\ runners' = [runners EXCEPT ![r].pc = "added"]
                   /\ world' = Append(world, [asset |-> AssetOf(r),
                                              kind |-> p.loader])
                   /\ mixers' = IF p.animations THEN mixers + 1 ELSE mixers
                   /\ SetRS(registerModelAnimations(RS, p.animations))
    /\ UNCHANGED <<sculptVars, sceneVars, page, inventory, mainPc, assets, totals, status, loaderVars, items,
                   index, concurrency, invoked, needResize, renderTick, framings>>

\* a catch block that counts the failure and adds no plane
handleAssetCatchNoPlane(t, w, i) ==
    [totals |-> [t EXCEPT !.fallback = @ + 1], world |-> w]

\* a catch block that adds the plane and leaves totals.fallback alone
handleAssetCatchUncounted(t, w, i) ==
    [totals |-> t, world |-> addFallbackPlane(w, i)]

\* the catch block of handleAsset: totals.fallback += 1; addFallbackPlane(...)
handleAssetCatch(t, w, i) ==
    [totals |-> [t EXCEPT !.fallback = @ + 1], world |-> addFallbackPlane(w, i)]

\* handleAsset resumed after await addAsset(asset): try or catch, then finally
HandleAssetResume(r) ==
    /\ page = "inventory"
    /\ runners[r].pc \in {"added", "threw"}
    /\ LET c  == IF runners[r].pc = "added"
                 THEN [totals |-> [totals EXCEPT !.ok = @ + 1], world |-> world]
                 ELSE handleAssetCatch(totals, world, AssetOf(r))
           t  == [c.totals EXCEPT !.loaded = @ + 1]
           report == t.loaded % STATUS_UPDATE_EVERY = 0 \/ t.loaded = t.total
       IN  /\ totals' = t
           /\ world' = c.world
           /\ status' = IF report THEN StatusText("Cargando assets", t)
                        ELSE status
           /\ SetRS(IF report THEN requestRender(RS) ELSE RS)
           /\ runners' = [runners EXCEPT ![r].pc =
                              IF t.loaded % YIELD_TO_UI_EVERY = 0
                              THEN "frame" ELSE "settled"]
    /\ UNCHANGED <<sculptVars, sceneVars, page, inventory, mainPc, assets, loaderVars, items, index, concurrency,
                   invoked, mixers, needResize, renderTick, framings>>

\* the requestAnimationFrame callback of nextFrame() fires
NextFrame(r) ==
    /\ page = "inventory"
    /\ runners[r].pc = "frame"
    /\ runners' = [runners EXCEPT ![r].pc = "settled"]
    /\ UNCHANGED <<sculptVars, sceneVars, page, inventory, mainPc, assets, totals, status, world, loaderVars,
                   items, index, concurrency, invoked, mixers, renderVars,
                   needResize, renderTick, framings>>

\* runner() resumed after await worker(items[current])
RunnerResume(r) ==
    /\ page = "inventory"
    /\ runners[r].pc = "settled"
    /\ SetM(runner(M, r))
    /\ UNCHANGED <<sculptVars, sceneVars, page, inventory, mainPc, assets, totals, status, world, mixers,
                   renderVars, needResize, renderTick, framings>>

\* ------------------------------------------------------------ frames, events
\* the animation-loop callback registered with the renderer fires
RenderFrame ==
    /\ page = "inventory"
    /\ animationLoop
    /\ LET f == renderFrame(RS, needResize)
       IN  /\ SetRS(f.rs)
           /\ renderTick' = IF f.drawn THEN 1 - renderTick ELSE renderTick
    /\ needResize' = FALSE
    /\ UNCHANGED <<sculptVars, sceneVars, page, inventory, mainPc, assets, totals, status, world, loaderVars,
                   runnerVars, mixers, framings>>

\* controls "change" -> requestRender
ControlsChange ==
    /\ page = "inventory"
    /\ SetRS(requestRender(RS))
    /\ UNCHANGED <<sculptVars, sceneVars, page, inventory, mainPc, assets, totals, status, world, loaderVars,
                   runnerVars, mixers, needResize, renderTick, framings>>

\* window "resize" -> requestRender; the canvas may or may not change size
WindowResize ==
    /\ page = "inventory"
    /\ SetRS(requestRender(RS))
    /\ \E changed \in BOOLEAN : needResize' = (needResize \/ changed)
    /\ UNCHANGED <<sculptVars, sceneVars, page, inventory, mainPc, assets, totals, status, world, loaderVars,
                   runnerVars, mixers, renderTick, framings>>

\* the canvas is laid out at another size with no window resize event
LayoutChange ==
    /\ page = "inventory"
    /\ ~needResize
    /\ needResize' = TRUE
    /\ UNCHANGED <<sculptVars, sceneVars, page, inventory, mainPc, assets, totals, status, world, loaderVars,
                   runnerVars, mixers, renderVars, renderTick, framings>>


\* ====================================================== the sculpture viewer
\* (src/sculptures/main.js)
MaxLayers == 2

LayerIds == {"x", "y"}
Layers == [id : LayerIds, role : {"layer", "sample"}]

\* the ids are the keys of a Map: a function whose domain is the keys present
NoCallbacks == <<>>

\* new THREE.PerspectiveCamera(50, 2, 0.1, 1000) at (1, 1, 3) and the target of
\* the controls, as main() of the sculpture page creates them
SculptureCameraAtStart ==
    [position |-> Vec(One, One, Rat(3, 1)),
     near |-> Rat(1, 10),
     far |-> Rat(1000, 1),
     target |-> Vec(Zero, Zero, Zero)]

\* centerObjectAtOrigin(object3D), on the box that setFromObject(object3D)
\* gives before and after the call: object3D.position.sub(center)
centerObjectAtOrigin(box) ==
    LET center == getCenter(box)
    IN  IF isEmpty(box) THEN box
        ELSE [min |-> Vec(Sub(box.min.x, center.x), Sub(box.min.y, center.y),
                          Sub(box.min.z, center.z)),
              max |-> Vec(Sub(box.max.x, center.x), Sub(box.max.y, center.y),
                          Sub(box.max.z, center.z))]

\* fitCameraToObject of the sculpture page, on the box of object3D
sculptureFitCameraToObject(sc, box, factor) ==
    LET size == getSize(box)
        center == getCenter(box)
        maxDim == MathMax(MathMax(size.x, size.y), size.z)
        cameraZ == Mul(MathAbs(Div(Div(maxDim, Rat(2, 1)), TanHalfFov)), factor)
    IN  [position |-> Vec(center.x, center.y, Add(center.z, cameraZ)),
         near |-> Div(maxDim, Rat(100, 1)),
         far |-> Mul(maxDim, Rat(100, 1)),
         target |-> center]

\* new THREE.Box3().setFromObject(group): empty while the group has no plane,
\* else the box its planes span: one plane of FALLBACK_SIZE as it is, planes
\* apart, planes scaled to nothing, planes near the largest numbers
GroupPlaneBoxes ==
    {[min |-> Vec(Rat(-1, 2), Rat(-1, 2), Zero), max |-> Vec(Rat(1, 2), Rat(1, 2), Zero)],
     [min |-> Vec(Zero, Zero, Zero), max |-> Vec(Rat(400, 1), One, Rat(5, 1))],
     [min |-> Vec(One, One, One), max |-> Vec(One, One, One)],
     [min |-> Vec(Neg(Fraction(48)), Zero, Zero),
      max |-> Vec(Fraction(48), One, Zero)]}

GroupBoxes(layers) ==
    IF \A n \in DOMAIN layers : layers[n].role = "sample"
    THEN {EmptyBox} ELSE GroupPlaneBoxes

\* centerObjectAtOrigin(group); fitCameraToObject(camera, group, controls, 1.35)
GroupFit ==
    [box \in GroupPlaneBoxes \cup {EmptyBox} |->
        LET centered == centerObjectAtOrigin(box)
        IN  [box |-> centered,
             camera |-> sculptureFitCameraToObject(SculptureCameraAtStart,
                                                   centered, Rat(135, 100))]]

\* the group is centered and the camera fitted to one of the boxes
FitGroup(boxes) ==
    \E box \in boxes :
        /\ tmpBox' = GroupFit[box].box
        /\ offset' = Num(Rat(135, 100))
        /\ camera' = GroupFit[box].camera

\* the sculpture script's state while the inventory page is open
SculptureAtRest ==
    /\ sculpture = <<>>
    /\ sculptPc = "closed"
    /\ loadingVisible = FALSE
    /\ statusAlert = "none"
    /\ statusLog = <<>>
    /\ matCache = {}
    /\ textureReadyCallbacks = NoCallbacks
    /\ pendingTextures = 0
    /\ textureWarningShown = FALSE
    /\ textureLoads = <<>>
    /\ called = <<>>
    /\ renderRequested = FALSE
    /\ frameCallbacks = 0

\* the inventory script's state while the sculpture page is open
InventoryAtRest ==
    /\ inventory = [isArray |-> FALSE, assets |-> <<>>]
    /\ mainPc = "closed"
    /\ assets = <<>>
    /\ totals = NoTotals
    /\ status = StatusText("", NoTotals)
    /\ world = <<>>
    /\ promises = <<>>
    /\ texturePromiseCache = <<>>
    /\ modelTemplateCache = <<>>
    /\ items = <<>>
    /\ index = 0
    /\ concurrency = 0
    /\ runners = <<>>
    /\ invoked = <<>>
    /\ mixers = 0
    /\ hasAnimatedModels = FALSE
    /\ renderLoopActive = FALSE
    /\ frameRequested = TRUE
    /\ animationLoop = FALSE
    /\ needResize = FALSE
    /\ renderTick = 0
    /\ renderPending = FALSE
    /\ framings = 0

\* main() of the sculpture page awaits loadSculpture(sculptureKey):
\* clearStatus(); setLoading(true, ...) have run
InitSculpture ==
    /\ page = "sculpture"
    /\ InventoryAtRest
    /\ transform = NoTransform
    /\ object3D = NewObject3D
    /\ tmpBox = EmptyBox
    /\ offset = Undefined
    /\ camera = SculptureCameraAtStart
    /\ scenePc = "idle"
    /\ mirrorXAxisOnImport = TRUE
    /\ sculpture \in SeqsUpTo(Layers, MaxLayers)
    /\ sculptPc = "fetch"
    /\ loadingVisible = TRUE
    /\ statusAlert = "none"
    /\ statusLog = <<>>
    /\ matCache = {}
    /\ textureReadyCallbacks = NoCallbacks
    /\ pendingTextures = 0
    /\ textureWarningShown = FALSE
    /\ textureLoads = <<>>
    /\ called = [n \in DOMAIN sculpture |-> 0]
    /\ renderRequested = FALSE
    /\ frameCallbacks = 0

\* The state main() and its callbacks work on, as one record.
G ==
    [loadingVisible |-> loadingVisible, statusAlert |-> statusAlert,
     statusLog |-> statusLog,
     matCache |-> matCache, textureReadyCallbacks |-> textureReadyCallbacks,
     pendingTextures |-> pendingTextures,
     textureWarningShown |-> textureWarningShown,
     textureLoads |-> textureLoads, called |-> called,
     renderRequested |-> renderRequested, frameCallbacks |-> frameCallbacks]

SetG(g) ==
    /\ loadingVisible' = g.loadingVisible
    /\ statusAlert' = g.statusAlert
    /\ statusLog' = g.statusLog
    /\ matCache' = g.matCache
    /\ textureReadyCallbacks' = g.textureReadyCallbacks
    /\ pendingTextures' = g.pendingTextures
    /\ textureWarningShown' = g.textureWarningShown
    /\ textureLoads' = g.textureLoads
    /\ called' = g.called
    /\ renderRequested' = g.renderRequested
    /\ frameCallbacks' = g.frameCallbacks

\* setLoading(isVisible)
setLoading(g, isVisible) == [g EXCEPT !.loadingVisible = isVisible]

\* showStatus(message, type)
showStatus(g, type) ==
    [g EXCEPT !.statusAlert = type, !.statusLog = Append(@, type)]

\* main().catch: setLoading(false); showStatus(e.message, "danger")
sculptureCatch(g) == showStatus(setLoading(g, FALSE), "danger")

\* an updateTextureLoading that only ever shows the indicator
updateTextureLoadingShowsOnly(g) ==
    IF g.pendingTextures > 0 THEN setLoading(g, TRUE) ELSE g

updateTextureLoading(g) ==
    IF g.pendingTextures > 0 THEN setLoading(g, TRUE) ELSE setLoading(g, FALSE)

requestRenderIfNotRequested(g) ==
    IF ~g.renderRequested
    THEN [g EXCEPT !.renderRequested = TRUE, !.frameCallbacks = @ + 1]
    ELSE g

\* a render() that leaves the flag as it finds it
renderKeepsFlag(g) == g

\* render(): renderRequested = false; ...; renderer.render(scene, camera)
render(g) == [g EXCEPT !.renderRequested = FALSE]

\* the callback makePlane hands to getMaterial for the layer at place n, called
\* when front and back exist (hasMeshes) or before
textureReady(g, n, hasMeshes) ==
    LET g1 == [g EXCEPT !.called[n] = @ + 1]
    IN  IF hasMeshes THEN requestRenderIfNotRequested(g1) ELSE g1

\* getMaterial(id, onTextureReady) called by makePlane for the layer at place n
getMaterial(g, id, n) ==
    IF id \in g.matCache
    THEN IF id \in DOMAIN g.textureReadyCallbacks
         THEN [g EXCEPT !.textureReadyCallbacks[id] = Append(@, n)]
         ELSE textureReady(g, n, FALSE)
    ELSE LET g1 == [g EXCEPT
                      !.textureReadyCallbacks = (id :> <<n>>) @@ @,
                      !.pendingTextures = @ + 1]
             g2 == updateTextureLoading(g1)
         IN  [g2 EXCEPT
                !.textureLoads = Append(@, [id |-> id, state |-> "pending"]),
                !.matCache = @ \cup {id}]

makePlane(g, layers, n) ==
    IF layers[n].role = "sample" THEN g ELSE getMaterial(g, layers[n].id, n)

\* for (const layer of layers) makePlane(layer), from place n on
RECURSIVE MakePlanes(_, _, _)
MakePlanes(g, layers, n) ==
    IF n > Len(layers) THEN g
    ELSE MakePlanes(makePlane(g, layers, n), layers, n + 1)

\* loadSculpture rejects (fetch rejects, !res.ok, res.json() rejects)
SculptureFetchFails ==
    /\ page = "sculpture"
    /\ sculptPc = "fetch"
    /\ sculptPc' = "failed"
    /\ SetG(sculptureCatch(G))
    /\ UNCHANGED <<page, sceneVars, inventoryVars, sculpture>>

\* loadSculpture fulfils: main() runs to its end
SculptureFetched ==
    /\ page = "sculpture"
    /\ sculptPc = "fetch"
    /\ sculptPc' = "ready"
    /\ FitGroup(GroupBoxes(sculpture))
    /\ SetG(updateTextureLoading(render(MakePlanes(G, sculpture, 1))))
    /\ UNCHANGED <<page, transform, object3D, scenePc, mirrorXAxisOnImport,
                   inventoryVars, sculpture>>

\* a loop that stops after the first callback
CallFirstOnly(g, callbacks, k) ==
    IF k > 1 \/ callbacks = <<>> THEN g
    ELSE textureReady(g, callbacks[1], TRUE)

\* for (const callback of callbacks) callback(tex), from place k on
RECURSIVE CallAll(_, _, _)
CallAll(g, callbacks, k) ==
    IF k > Len(callbacks) THEN g
    ELSE CallAll(textureReady(g, callbacks[k], TRUE), callbacks, k + 1)

Without(f, key) == [k \in DOMAIN f \ {key} |-> f[k]]

\* the onLoad callback of loader.load for textureLoads[t]
TextureLoaded(t) ==
    /\ page = "sculpture"
    /\ textureLoads[t].state = "pending"
    /\ LET id == textureLoads[t].id
           g1 == updateTextureLoading(
                    [G EXCEPT !.pendingTextures = Max(0, @ - 1),
                              !.textureLoads[t].state = "loaded"])
           callbacks == IF id \in DOMAIN g1.textureReadyCallbacks
                        THEN g1.textureReadyCallbacks[id] ELSE <<>>
           g2 == CallAll(g1, callbacks, 1)
           g3 == [g2 EXCEPT !.textureReadyCallbacks = Without(@, id)]
       IN  /\ SetG(requestRenderIfNotRequested(g3))
           /\ IF callbacks # <<>>
              THEN FitGroup(GroupPlaneBoxes)
              ELSE UNCHANGED <<tmpBox, offset, camera>>
    /\ UNCHANGED <<page, transform, object3D, scenePc, mirrorXAxisOnImport,
                   inventoryVars, sculpture, sculptPc>>

\* the onError callback of loader.load for textureLoads[t]
TextureFailed(t) ==
    /\ page = "sculpture"
    /\ textureLoads[t].state = "pending"
    /\ LET id == textureLoads[t].id
           g1 == updateTextureLoading(
                    [G EXCEPT !.pendingTextures = Max(0, @ - 1),
                              !.textureLoads[t].state = "failed"])
           g2 == IF ~g1.textureWarningShown
                 THEN [showStatus(g1, "warning") EXCEPT
                          !.textureWarningShown = TRUE]
                 ELSE g1
           g3 == [g2 EXCEPT !.textureReadyCallbacks = Without(@, id)]
       IN  SetG(requestRenderIfNotRequested(g3))
    /\ UNCHANGED <<page, sceneVars, inventoryVars, sculpture, sculptPc>>

\* a requestAnimationFrame(render) callback fires
SculptureFrame ==
    /\ page = "sculpture"
    /\ frameCallbacks > 0
    /\ SetG([render(G) EXCEPT !.frameCallbacks = @ - 1])
    /\ UNCHANGED <<page, sceneVars, inventoryVars, sculpture, sculptPc>>

\* controls "change", window "resize", theme toggle "click"
SculptureEvent ==
    /\ page = "sculpture"
    /\ sculptPc = "ready"
    /\ SetG(requestRenderIfNotRequested(G))
    /\ UNCHANGED <<page, sceneVars, inventoryVars, sculpture, sculptPc>>

NextSculpture ==
    \/ SculptureFetchFails
    \/ SculptureFetched
    \/ \E t \in DOMAIN textureLoads : TextureLoaded(t)
    \/ \E t \in DOMAIN textureLoads : TextureFailed(t)
    \/ SculptureFrame
    \/ SculptureEvent

\* ------------------------------------------------------------ specification
\* the render-loop state as the script declares it
ScriptStart ==
    [hasAnimatedModels |-> FALSE,
     renderLoopActive  |-> FALSE,
     frameRequested    |-> TRUE,
     animationLoop     |-> FALSE,
     renderPending     |-> FALSE]

StartRS(rs) ==
    /\ hasAnimatedModels = rs.hasAnimatedModels
    /\ renderLoopActive = rs.renderLoopActive
    /\ frameRequested = rs.frameRequested
    /\ animationLoop = rs.animationLoop
    /\ renderPending = rs.renderPending

\* the state when the script of src/main.js has run: main() awaits fetch and
\* the requestRender() of the last line has been called
InventoryLoaded ==
    /\ page = "inventory"
    /\ mainPc = "fetch"
    /\ assets = <<>>
    /\ totals = NoTotals
    /\ status = StatusText("Cargando inventario...", NoTotals)
    /\ world = <<>>
    /\ promises = <<>>
    /\ texturePromiseCache = <<>>
    /\ modelTemplateCache = <<>>
    /\ items = <<>>
    /\ index = 0
    /\ concurrency = 0
    /\ runners = <<>>
    /\ invoked = <<>>
    /\ mixers = 0
    /\ StartRS(requestRender(ScriptStart))
    /\ needResize \in BOOLEAN
    /\ renderTick = 0
    /\ framings = 0

\* the inventory page with the sculpture script's state at rest
InitInventory ==
    /\ inventory \in Documents(MaxAssets, MaxTail)
    /\ InventoryLoaded
    /\ SculptureAtRest
    /\ SceneAtRest

NextInventory ==
    \/ FetchFails
    \/ FetchOk
    \/ JsonFails
    \/ JsonParsed
    \/ ModelsDone
    \/ ImagesDone
    \/ SettleLoad
    \/ \E r \in DOMAIN runners : AddAssetResume(r)
    \/ \E r \in DOMAIN runners : HandleAssetResume(r)
    \/ \E r \in DOMAIN runners : NextFrame(r)
    \/ \E r \in DOMAIN runners : RunnerResume(r)
    \/ RenderFrame
    \/ ControlsChange
    \/ WindowResize
    \/ LayoutChange

Init == InitInventory \/ InitSculpture

Next == NextInventory \/ NextSculpture

Spec == Init /\ [][Next]_vars

\* The same page over the manifests of up to MaxLiveAssets entries; the
\* renderer keeps calling the callback it was given for as long as it is
\* registered.
MaxLiveAssets == 1

InitLive ==
    /\ inventory \in Documents(MaxLiveAssets, 1)
    /\ InventoryLoaded
    /\ SculptureAtRest
    /\ SceneAtRest

SpecLive == InitLive /\ [][NextInventory]_vars /\ WF_vars(RenderFrame)

\* The sculpture page alone; the browser calls every callback that
\* requestAnimationFrame was given.
SpecSculpture == InitSculpture /\ [][NextSculpture]_vars /\ WF_vars(SculptureFrame)

\* The loading pipeline with what the browser guarantees: while a started
\* load is unsettled, a requested frame has not fired or a continuation can
\* run, one of them happens.
MaxPipelineAssets == 2

InitPipeline ==
    /\ inventory \in Documents(MaxPipelineAssets, 1)
    /\ InventoryLoaded
    /\ SculptureAtRest
    /\ SceneAtRest

\* a step of the pipeline: a load settles, a frame fires, a continuation runs
PipelineStep ==
    \/ SettleLoad
    \/ \E r \in DOMAIN runners : AddAssetResume(r)
    \/ \E r \in DOMAIN runners : HandleAssetResume(r)
    \/ \E r \in DOMAIN runners : NextFrame(r)
    \/ \E r \in DOMAIN runners : RunnerResume(r)
    \/ ModelsDone
    \/ ImagesDone

SpecPipeline ==
    InitPipeline /\ [][NextInventory]_vars /\ WF_vars(PipelineStep)

\* ------------------------------------------- runWithConcurrency on its own
\* One call runWithConcurrency(items, limit, handleAsset), for every list of up
\* to MaxItems loadable assets and every limit up to MaxLimit: the state when
\* the call has reached await Promise.all(runners).
MaxItems == 3
MaxLimit == 2

CallAssets ==
    [assetType : {"image"}, mapped_file : {"a.png", NoFile}]
        \cup [assetType : {"model"}, mapped_file : ModelFiles]

InitCall ==
    /\ SculptureAtRest
    /\ SceneAtRest
    /\ page = "inventory"
    /\ mainPc = "call"
    /\ assets \in SeqsUpTo(CallAssets, MaxItems)
    /\ inventory = [isArray |-> TRUE, assets |-> assets]
    /\ totals = [NoTotals EXCEPT !.total = Len(assets)]
    /\ status = StatusText("Cargando assets: 0/", totals)
    /\ world = <<>>
    /\ mixers = 0
    /\ StartRS(requestRender(ScriptStart))
    /\ needResize = FALSE
    /\ renderTick = 0
    /\ framings = 0
    /\ \E limit \in 1..MaxLimit :
        LET m == runWithConcurrency(
                    [assets |-> assets, promises |-> <<>>,
                     texturePromiseCache |-> <<>>, modelTemplateCache |-> <<>>,
                     items |-> <<>>, index |-> 0, concurrency |-> 0,
                     runners |-> <<>>, invoked |-> <<>>],
                    [i \in 1..Len(assets) |-> i], limit)
        IN  /\ promises = m.promises
            /\ texturePromiseCache = m.texturePromiseCache
            /\ modelTemplateCache = m.modelTemplateCache
            /\ items = m.items
            /\ index = m.index
            /\ concurrency = m.concurrency
            /\ runners = m.runners
            /\ invoked = m.invoked

\* Promise.all(runners) fulfils: the call returns to its caller
CallReturns ==
    /\ mainPc = "call"
    /\ AllRunnersDone
    /\ mainPc' = "returned"
    /\ UNCHANGED <<sculptVars, sceneVars, page, inventory, assets, totals, status, world, loaderVars, runnerVars,
                   mixers, renderVars, needResize, renderTick, framings>>

NextCall ==
    \/ SettleLoad
    \/ \E r \in DOMAIN runners : AddAssetResume(r)
    \/ \E r \in DOMAIN runners : HandleAssetResume(r)
    \/ \E r \in DOMAIN runners : RunnerResume(r)
    \/ CallReturns

SpecCall == InitCall /\ [][NextCall]_vars

\* --------------------------------------------- applyTransform on its own
\* One call applyTransform(holder, transform) on a new node, for the
\* transforms of the manifests: numbers from -MaxCoord to MaxCoord and the
\* other values JSON can hold.
MaxCoord == 1

Numbers == {Num(Rat(v, 1)) : v \in -MaxCoord..MaxCoord}

Components ==
    Numbers \cup {Undefined, Null, Num(PosInf), Str("abc"), Str("3"), Str(""),
                  Bool("true"), Bool("false"), EmptyObject}

RotationComponents == Numbers \cup {Undefined, Null, Str("abc")}

\* a field that is no object: absent, null, a number, an array of three
OtherSources ==
    {Missing, NullSource, NumberSource,
     ArraySource(<<Num(One), Num(One), Num(One)>>)}

PlainVectors == {Missing, ObjectSource(Num(One), Num(One), Num(One), Undefined)}

PlainRotations ==
    {Missing, ArraySource(<<Num(Zero), Num(Zero), Num(One), Num(One)>>)}

\* position, scale or rotation takes every shape, the other two a plain one
IsTransform(tr) ==
    \/ tr = NoTransform
    \/ \E x \in Components, y \in Components, z \in Components,
          r \in PlainRotations, v \in PlainVectors :
            \/ tr = Transform(ObjectSource(x, y, z, Undefined), r, v)
            \/ tr = Transform(v, r, ObjectSource(x, y, z, Undefined))
    \/ \E o \in OtherSources, r \in PlainRotations, v \in PlainVectors :
            \/ tr = Transform(o, r, v)
            \/ tr = Transform(v, r, o)
    \/ \E x \in RotationComponents, y \in RotationComponents,
          z \in RotationComponents, w \in RotationComponents,
          p \in PlainVectors, v \in PlainVectors :
            \/ tr = Transform(p, ObjectSource(x, y, z, w), v)
            \/ tr = Transform(p, ArraySource(<<x, y, z, w>>), v)
    \/ \E o \in OtherSources, p \in PlainVectors, v \in PlainVectors :
            tr = Transform(p, o, v)

InitTransform ==
    /\ page = "inventory"
    /\ InventoryAtRest
    /\ SculptureAtRest
    /\ IsTransform(transform)
    /\ object3D = NewObject3D
    /\ tmpBox = EmptyBox
    /\ offset = Undefined
    /\ camera = SceneAtStart
    /\ scenePc = "transform"
    /\ mirrorXAxisOnImport \in BOOLEAN

ApplyTransform ==
    /\ scenePc = "transform"
    /\ object3D' = applyTransform(object3D, transform)
    /\ scenePc' = "applied"
    /\ UNCHANGED <<page, inventoryVars, sculptVars, transform, tmpBox, offset,
                   camera, mirrorXAxisOnImport>>

SpecTransform == InitTransform /\ [][ApplyTransform]_vars

\* ------------------------------------------- fitCameraToObject on its own
\* One call fitCameraToObject(camera, object3D, controls, offset), for boxes
\* with corners from the unit cube up to the largest numbers and for the
\* offset factors a caller can pass.
Coordinates ==
    {NegInf, Neg(Fraction(60)), Neg(Fraction(48)), Zero, One, Rat(8, 1),
     Rat(100, 1), Rat(400, 1), Fraction(48), Fraction(60), PosInf}

IsBox(box) ==
    \/ box = EmptyBox
    \/ \E a \in Coordinates, b \in Coordinates,
          c \in {Zero, Rat(300, 1)}, d \in {Zero, One, Rat(300, 1)},
          f \in {Zero, Rat(5, 1)} :
            box = [min |-> Vec(a, c, Zero), max |-> Vec(b, d, f)]

OffsetFactors ==
    {Undefined, Null, Num(PosInf), Num(Zero), Num(Rat(-1, 1)),
     Num(Rat(14, 10)), Num(Rat(3, 1))}

InitFit ==
    /\ page = "inventory"
    /\ InventoryAtRest
    /\ SculptureAtRest
    /\ transform = NoTransform
    /\ object3D = NewObject3D
    /\ IsBox(tmpBox)
    /\ offset \in OffsetFactors
    /\ camera = SceneAtStart
    /\ scenePc = "fit"
    /\ mirrorXAxisOnImport = TRUE

FitCamera ==
    /\ scenePc = "fit"
    /\ camera' = fitCameraToObject(camera, tmpBox, offset)
    /\ scenePc' = IF Repositions(tmpBox) THEN "fitted" ELSE "returned"
    /\ UNCHANGED <<page, inventoryVars, sculptVars, transform, object3D, mirrorXAxisOnImport,
                   tmpBox, offset>>

SpecFit == InitFit /\ [][FitCamera]_vars

\* ===================================================================== claims

\* C1: runWithConcurrency calls worker exactly once for every element of
\* items: never twice while it runs, and once each when all runners have
\* returned, for every list length (0 included) and every order in which the
\* runners are resumed.
C1_EveryItemOnce ==
    /\ DOMAIN invoked = DOMAIN items
    /\ \A i \in DOMAIN invoked : invoked[i] <= 1
    /\ \A r \in DOMAIN runners :
        runners[r].pc \in WorkerPcs \cup {"settled"} => invoked[runners[r].current + 1] = 1
    /\ AllRunnersDone => \A i \in DOMAIN items : invoked[i] = 1

\* a call with two runners has returned; runner 2 took the second and the
\* third item while runner 1 was still at the first
C1_Witness ==
    /\ mainPc = "returned"
    /\ Len(items) >= 3
    /\ Len(runners) = 2
    /\ runners[1].current = 0
    /\ runners[2].current = Len(items) - 1

\* C2: with a positive limit, the worker calls started and not settled never
\* exceed the limit; in main() that is 1 for the model batch and 8 for the
\* image batch, and as many loads at most are pending in either loader.
PendingLoads(loader) ==
    Cardinality({p \in DOMAIN promises :
                    promises[p].loader = loader /\ promises[p].state = "pending"})

C2_InFlightBounded ==
    /\ concurrency > 0 => InFlight <= concurrency
    /\ mainPc = "models" => InFlight <= MODEL_CONCURRENCY
    /\ mainPc = "images" => InFlight <= IMAGE_CONCURRENCY
    /\ PendingLoads("model") <= MODEL_CONCURRENCY
    /\ PendingLoads("texture") <= IMAGE_CONCURRENCY

\* one model load is in flight and a further model waits for its turn
C2_Witness ==
    /\ mainPc = "models"
    /\ InFlight = MODEL_CONCURRENCY
    /\ PendingLoads("model") = 1
    /\ index < Len(items)

\* C3: a failing asset never aborts its batch.  Whenever addAsset has rejected
\* for an item, handleAsset adds exactly one fallback plane for that item and
\* its call fulfils (or goes on to await nextFrame); when main() has finished,
\* world holds exactly one node per manifest entry: the asset's node if its
\* load fulfilled, a fallback plane otherwise.
LoadFulfilled(cache, fileName) ==
    /\ fileName \in DOMAIN cache
    /\ promises[cache[fileName]].state = "fulfilled"

ExpectedNode(i) ==
    LET asset == assets[i]
    IN  IF IsModelAsset(asset)
           /\ LoadFulfilled(modelTemplateCache, asset.mapped_file)
        THEN [asset |-> i, kind |-> "model"]
        ELSE IF IsImageAsset(asset)
                /\ LoadFulfilled(texturePromiseCache, asset.mapped_file)
        THEN [asset |-> i, kind |-> "texture"]
        ELSE FallbackNode(i)

C3_OneNodePerEntry ==
    mainPc = "done" =>
        /\ Len(world) = Len(assets)
        /\ \A i \in DOMAIN assets : \E n \in DOMAIN world : world[n] = ExpectedNode(i)

C3_CatchAddsOnePlane ==
    \A r \in DOMAIN runners :
        (runners[r].pc = "threw" /\ r \in DOMAIN runners' /\ runners'[r] # runners[r])
            => /\ world' = Append(world, FallbackNode(AssetOf(r)))
               /\ runners'[r].pc \in {"settled", "frame"}
               /\ runners'[r].current = runners[r].current

C3_FailuresBecomeFallbacks ==
    [] C3_OneNodePerEntry /\ [][C3_CatchAddsOnePlane]_vars

\* main() has finished a manifest in which one image failed to load and
\* another one loaded
C3_Witness ==
    /\ mainPc = "done"
    /\ \E n \in DOMAIN world :
        /\ world[n].kind = "fallback"
        /\ IsImageAsset(assets[world[n].asset])
        /\ assets[world[n].asset].mapped_file # NoFile
    /\ \E n \in DOMAIN world : world[n].kind = "texture"

\* C4: each loader starts the library load at most once per file name, be the
\* load pending, fulfilled or rejected; every request for the name gets the
\* cached promise; no cache entry is ever removed or replaced.
LoadsStarted(loader, fileName) ==
    Cardinality({p \in DOMAIN promises :
                    promises[p].loader = loader /\ promises[p].file = fileName})

CacheFor(asset) ==
    IF asset.assetType = "model" THEN modelTemplateCache ELSE texturePromiseCache

C4_OneLoadPerFile ==
    /\ \A fileName \in ModelFiles : LoadsStarted("model", fileName) <= 1
    /\ \A fileName \in ImageFiles : LoadsStarted("texture", fileName) <= 1
    /\ \A r \in DOMAIN runners :
        runners[r].pc = "load" =>
            LET asset == assets[AssetOf(r)]
            IN  /\ asset.mapped_file \in DOMAIN CacheFor(asset)
                /\ runners[r].promise = CacheFor(asset)[asset.mapped_file]

C4_EntriesKept ==
    /\ \A fileName \in DOMAIN texturePromiseCache :
        /\ fileName \in DOMAIN texturePromiseCache'
        /\ texturePromiseCache'[fileName] = texturePromiseCache[fileName]
    /\ \A fileName \in DOMAIN modelTemplateCache :
        /\ fileName \in DOMAIN modelTemplateCache'
        /\ modelTemplateCache'[fileName] = modelTemplateCache[fileName]

C4_LoadedOncePerFile ==
    [] C4_OneLoadPerFile /\ [][C4_EntriesKept]_vars

\* the second model of a manifest asks for the file whose load has failed and
\* is handed the rejected promise: no second load
C4_Witness ==
    /\ mainPc = "models"
    /\ Len(promises) = 1
    /\ runners[1].pc = "load"
    /\ runners[1].current = 1
    /\ promises[runners[1].promise].state = "rejected"

\* C5: when the manifest fetch fails, startup is aborted and the user is told.
\* Inventory viewer: no load has been started, world is empty and the status
\* text is the error's message.  Sculpture viewer: no texture load has been
\* started, the loading indicator is hidden and a danger alert is shown.
C5_FetchFailureAborts ==
    /\ (page = "inventory" /\ mainPc = "failed") =>
        /\ promises = <<>>
        /\ runners = <<>>
        /\ world = <<>>
        /\ totals = NoTotals
        /\ status.text \in ErrorMessages
    /\ (page = "sculpture" /\ sculptPc = "failed") =>
        /\ textureLoads = <<>>
        /\ matCache = {}
        /\ pendingTextures = 0
        /\ ~loadingVisible
        /\ statusAlert = "danger"

\* the inventory fetch was answered with a status that is not ok, and the
\* frame requested by the error handler has been drawn
C5_Witness ==
    /\ page = "inventory"
    /\ mainPc = "failed"
    /\ status.text = "No se pudo cargar"
    /\ inventory.isArray
    /\ Len(inventory.assets) > 0
    /\ renderTick = 1

\* C6: the inventory viewer repaints only when something is dirty or animated.
\* A frame in which renderFrame calls renderer.render is one that begins with
\* the flag set by a requestRender call, or finds the canvas resized, or has
\* animated models; and once the flag is clear with no animated model, the
\* callback is no longer registered with the renderer.
C6_DrawnFrameWasWanted ==
    renderTick' # renderTick =>
        \/ frameRequested /\ renderPending
        \/ needResize
        \/ hasAnimatedModels

C6_IdleLoopStopped == (~frameRequested /\ ~hasAnimatedModels) => ~animationLoop

C6_RepaintOnlyWhenDirty ==
    [] C6_IdleLoopStopped /\ [][C6_DrawnFrameWasWanted]_vars

\* a frame has been drawn for a manifest without animated models, and with
\* nothing left to draw the loop has been stopped
C6_Witness ==
    /\ renderTick = 1
    /\ mainPc = "done"
    /\ ~hasAnimatedModels
    /\ ~frameRequested
    /\ ~animationLoop

\* C7: every requestRender() call is followed by a renderer.render call, given
\* that the registered animation-loop callback keeps being fired; from the
\* call until that frame the callback is registered, also when the loop was
\* stopped at the time of the call.
C7_LoopRunsWhilePending == renderPending => (animationLoop /\ frameRequested)

C7_RequestIsRendered ==
    [] C7_LoopRunsWhilePending /\ (renderPending ~> ~renderPending)

\* a frame was drawn and the loop stopped (no animated model); a later
\* requestRender() has the callback registered again
C7_Witness ==
    /\ renderTick = 1
    /\ ~hasAnimatedModels
    /\ renderPending
    /\ animationLoop
    /\ renderLoopActive

\* C8: in the inventory viewer, from the requestRender() at the end of the
\* script on and whenever no handler or frame callback is running,
\* renderLoopActive is true exactly when hasAnimatedModels or frameRequested
\* is, and the callback is registered with the renderer exactly then.
C8_LoopActiveIffWanted ==
    page = "inventory" =>
        /\ renderLoopActive <=> (hasAnimatedModels \/ frameRequested)
        /\ animationLoop <=> renderLoopActive

\* a frame has been drawn with an animated model placed: the flag is clear and
\* the loop keeps running
C8_Witness ==
    /\ page = "inventory"
    /\ hasAnimatedModels
    /\ ~frameRequested
    /\ renderLoopActive
    /\ renderTick = 1


\* C9: after applyTransform, a position component that is missing or is not a
\* finite number leaves the node's position component 0, such a scale
\* component leaves the scale component 1, and a missing rotation leaves the
\* identity rotation.
IsFiniteNumber(value) == value.t = "number" /\ IsFinite(value.n)

Component(tr, name, c) == Field(TransformField(tr, name), c)

C9_AbsentFieldsDefault ==
    scenePc = "applied" =>
        /\ \A c \in Axes :
            /\ ~IsFiniteNumber(Component(transform, "position", c))
                    => object3D.position[c] = Zero
            /\ ~IsFiniteNumber(Component(transform, "scale", c))
                    => object3D.scale[c] = One
        /\ TransformField(transform, "rotation").t = "undefined"
                => object3D.quaternion = Identity

\* C10: a fitCameraToObject call that repositions the camera puts it between
\* 10 and 280 in front of the centre of the box, and sets a fog density
\* between 0.00018 and 0.0012, for every box and every offset factor.
ZOffset == Sub(camera.position.z, getCenter(tmpBox).z)

InRange(v, low, high) == LessEq(low, v) /\ LessEq(v, high)

FitWithinRange ==
    /\ InRange(ZOffset, Rat(10, 1), Rat(280, 1))
    /\ InRange(camera.fogDensity, Rat(18, 100000), Rat(12, 10000))

PipelineDone ==
    /\ mainPc = "done"
    /\ AllRunnersDone
    /\ status.text = "Listo"
    /\ totals.loaded = totals.total
    /\ \A p \in DOMAIN promises : promises[p].state # "pending"

C11_PipelineTerminates ==
    (mainPc \in {"models", "images"}) ~> PipelineDone

\* main() is done with a manifest that made a handleAsset call wait for a frame
C11_Witness ==
    /\ PipelineDone
    /\ totals.total = YIELD_TO_UI_EVERY
    /\ totals.ok = 1
    /\ Len(promises) = 1


\* C12: a frame that renderFrame draws ends with the frame-requested flag
\* clear, except with animated models, where it ends with the flag set and
\* the loop running.
C12_FlagAfterFrame ==
    renderTick' # renderTick =>
        IF hasAnimatedModels
        THEN frameRequested' /\ animationLoop'
        ELSE ~frameRequested'

C12_FlagClearedUnlessAnimated == [][C12_FlagAfterFrame]_vars

\* C12, amended: every frame that renderFrame draws ends with the flag clear,
\* with animated models too.  With animated models the loop stays registered
\* all the same, and every frame sets the flag anew and is drawn.
C12_FlagClearAfterFrame ==
    renderTick' # renderTick =>
        /\ ~frameRequested'
        /\ hasAnimatedModels => (animationLoop' /\ renderLoopActive')

C12_AnimatedFrameIsDrawn ==
    (RenderFrame /\ hasAnimatedModels) => renderTick' # renderTick

C12_FlagClearedLoopKept ==
    /\ [][C12_FlagClearAfterFrame]_vars
    /\ [][C12_AnimatedFrameIsDrawn]_vars

\* main() is done, a model with animations is placed, and the last frame has
\* left the flag clear and the loop running
C12_Witness ==
    /\ mainPc = "done"
    /\ mixers = 1
    /\ hasAnimatedModels
    /\ ~frameRequested
    /\ ~renderPending
    /\ animationLoop


\* C13: the framing of the world (updateGroundReference and
\* fitCameraToObject) is recomputed on completion of each batch: once when the
\* model batch has finished and once more when the image batch has finished.
C13_FramedAfterEachBatch ==
    /\ mainPc = "images" => framings = 1
    /\ mainPc = "done" => framings = 2

\* C13, amended: the world is framed once, when both batches have finished;
\* until main() gets there the camera is the one the script created.
C13_FramedOnceAfterBothBatches ==
    /\ framings = (IF mainPc = "done" THEN 1 ELSE 0)
    /\ (page = "inventory" /\ mainPc # "done") =>
            (camera = SceneAtStart /\ scenePc = "idle")
    /\ mainPc = "done" => camera = WorldFit[tmpBox].camera

\* both batches have placed a node and main() has framed a world that is not
\* empty
C13_Witness ==
    /\ mainPc = "done"
    /\ framings = 1
    /\ scenePc = "fitted"
    /\ DOMAIN texturePromiseCache # {}
    /\ DOMAIN modelTemplateCache # {}
    /\ totals.ok = 2


\* C14: in the sculpture viewer, once main() has fitted the camera, the
\* distance of the camera from its target is a finite number, and the near
\* plane is positive and below the far plane, whatever the layer list is
\* (an empty list and a list of 'sample' layers included).
CameraDistance == Sub(camera.position.z, camera.target.z)

C14_SculptureCameraInRange ==
    (page = "sculpture" /\ sculptPc = "ready") =>
        /\ IsFinite(CameraDistance)
        /\ Less(Zero, camera.near)
        /\ Less(camera.near, camera.far)


\* C15: with mirror mode on, applyTransform gives the node the source position
\* with x negated, the source quaternion with y and z negated and the source
\* scale; with mirror mode off it gives the node the three unchanged.
C15_MirrorNegatesXAndYZ ==
    scenePc = "applied" =>
        LET p == getVector3(TransformField(transform, "position"),
                            Vec(Zero, Zero, Zero))
            s == getVector3(TransformField(transform, "scale"),
                            Vec(One, One, One))
            q == getQuaternion(TransformField(transform, "rotation"))
        IN  IF mirrorXAxisOnImport
            THEN /\ object3D.position = Vec(Neg(p.x), p.y, p.z)
                 /\ object3D.quaternion = Quat(q.form, q.x, Neg(q.y), Neg(q.z), q.w)
                 /\ object3D.scale = s
            ELSE /\ object3D.position = p
                 /\ object3D.quaternion = q
                 /\ object3D.scale = s

\* mirror mode is on and a node has got a position and a rotation that the
\* mirroring changes
C15_Witness ==
    /\ scenePc = "applied"
    /\ mirrorXAxisOnImport
    /\ Component(transform, "position", "x") = Num(One)
    /\ object3D.position.x = Rat(-1, 1)
    /\ TransformField(transform, "rotation").t = "array"
    /\ object3D.quaternion.z = Rat(-1, 1)


\* C16: whenever control is with the event loop, totals.ok + totals.fallback
\* = totals.loaded <= totals.total; totals.loaded is the number of manifest
\* entries whose handling has passed its counting (the unsupported and null
\* entries, the entries of a finished batch, and the entries of the running
\* batch whose handleAsset call has reached its finally block), so every
\* entry is counted once; and the final status reports ok + fallback = total.
SeqRange(seq) == {seq[k] : k \in DOMAIN seq}

\* the entries whose handleAsset call has started and has not counted yet
BeingHandled ==
    {AssetOf(r) : r \in {x \in DOMAIN runners :
                            runners[x].pc \in {"load", "added", "threw"}}}

EntriesCounted ==
    SeqRange(otherAssets(assets))
        \cup (IF mainPc \in {"images", "done"}
              THEN SeqRange(modelAssets(assets)) ELSE {})
        \cup ({items[k] : k \in {j \in DOMAIN items : invoked[j] = 1}}
              \ BeingHandled)

C16_CountersConsistent ==
    (page = "inventory" /\ mainPc \in {"models", "images", "done"}) =>
        /\ totals.ok + totals.fallback = totals.loaded
        /\ totals.loaded <= totals.total
        /\ totals.total = Len(assets)
        /\ totals.loaded = Cardinality(EntriesCounted)
        /\ mainPc = "done" =>
                /\ EntriesCounted = DOMAIN assets
                /\ status = StatusText("Listo", totals)
                /\ status.ok + status.fallback = status.total

\* two handleAsset calls of the image batch run side by side: one has
\* counted its entry, the other still awaits its texture
C16_Witness ==
    /\ mainPc = "images"
    /\ Len(runners) = 2
    /\ totals.loaded = 1
    /\ totals.total = 2
    /\ Cardinality(BeingHandled) = 1


\* C17: a texture-ready callback that makePlane registered through getMaterial
\* waits in the list of its layer id, once, while the load of that id is
\* pending; it has been called exactly once when the load has succeeded and
\* not at all when the load has failed; and the list of the id is gone once
\* the load has settled either way.
LoadOf(id) == CHOOSE t \in DOMAIN textureLoads : textureLoads[t].id = id

Occurrences(seq, v) == Cardinality({k \in DOMAIN seq : seq[k] = v})

C17_CallbacksCalledOnceOnSuccess ==
    (page = "sculpture" /\ sculptPc = "ready") =>
        \A n \in DOMAIN sculpture :
            LET id == sculpture[n].id
            IN  IF sculpture[n].role = "sample" THEN called[n] = 0
                ELSE /\ \E t \in DOMAIN textureLoads : textureLoads[t].id = id
                     /\ CASE textureLoads[LoadOf(id)].state = "pending" ->
                                /\ called[n] = 0
                                /\ id \in DOMAIN textureReadyCallbacks
                                /\ Occurrences(textureReadyCallbacks[id], n) = 1
                          [] textureLoads[LoadOf(id)].state = "loaded" ->
                                /\ called[n] = 1
                                /\ id \notin DOMAIN textureReadyCallbacks
                          [] OTHER ->
                                /\ called[n] = 0
                                /\ id \notin DOMAIN textureReadyCallbacks

\* two layers share an id, one load was started for both, and it has succeeded
C17_Witness ==
    /\ Len(sculpture) = 2
    /\ sculpture[1].id = sculpture[2].id
    /\ called = <<1, 1>>
    /\ textureReadyCallbacks = NoCallbacks
    /\ Len(textureLoads) = 1
    /\ textureLoads[1].state = "loaded"


\* C18: pendingTextures is the number of texture loads started and not yet
\* settled, which is the number of keys of textureReadyCallbacks, with one
\* load per layer id and never a negative count; once every started load has
\* settled the loading indicator is hidden, and it stays hidden; and the
\* warning about failed textures is shown at most once.
PendingTextureLoads == {t \in DOMAIN textureLoads : textureLoads[t].state = "pending"}

PlaneIds == {sculpture[n].id : n \in {k \in DOMAIN sculpture : sculpture[k].role # "sample"}}

AllTexturesSettled == sculptPc = "ready" /\ PendingTextureLoads = {}

C18_PendingCounted ==
    page = "sculpture" =>
        /\ pendingTextures \in Nat
        /\ pendingTextures = Cardinality(PendingTextureLoads)
        /\ pendingTextures = Cardinality(DOMAIN textureReadyCallbacks)
        /\ \A t, u \in DOMAIN textureLoads :
                textureLoads[t].id = textureLoads[u].id => t = u
        /\ sculptPc = "ready" =>
                {textureLoads[t].id : t \in DOMAIN textureLoads} = PlaneIds
        /\ AllTexturesSettled => ~loadingVisible
        /\ Occurrences(statusLog, "warning") <= 1

C18_StaysHidden ==
    (page = "sculpture" /\ AllTexturesSettled) =>
        (AllTexturesSettled' /\ ~loadingVisible')

C18_PendingTexturesTracked == []C18_PendingCounted /\ [][C18_StaysHidden]_vars

\* two loads were started, both have failed, the indicator is hidden and the
\* warning was shown once
C18_Witness ==
    /\ Len(textureLoads) = 2
    /\ \A t \in DOMAIN textureLoads : textureLoads[t].state = "failed"
    /\ pendingTextures = 0
    /\ ~loadingVisible
    /\ statusLog = <<"warning">>


\* C19: at most one requestAnimationFrame(render) callback is outstanding,
\* and one is outstanding exactly while renderRequested is set; a step
\* schedules a callback only when none is outstanding, so the requests made
\* between two frames schedule one render; and every request is followed by
\* a render.
C19_OneCallbackOutstanding ==
    /\ frameCallbacks \in {0, 1}
    /\ renderRequested <=> frameCallbacks = 1

C19_SchedulesOnlyWhenIdle ==
    /\ frameCallbacks' > frameCallbacks =>
            (~renderRequested /\ renderRequested' /\ frameCallbacks' = 1)
    /\ frameCallbacks' < frameCallbacks =>
            (renderRequested /\ ~renderRequested' /\ frameCallbacks' = 0)

C19_OneRenderPerRequest ==
    /\ []C19_OneCallbackOutstanding
    /\ [][C19_SchedulesOnlyWhenIdle]_vars
    /\ (renderRequested ~> ~renderRequested)

\* both layers have had their texture-ready callback called, each of which
\* asked for a render, and one render callback is outstanding
C19_Witness ==
    /\ sculptPc = "ready"
    /\ called = <<1, 1>>
    /\ Len(textureLoads) = 2
    /\ renderRequested
    /\ frameCallbacks = 1


\* C20: the model batch is over before the image batch starts: while the
\* model batch runs no texture load has been started; once the image batch
\* has started every model entry has its node (placed or fallback) in world
\* and no model load is pending; whenever a load has been started the
\* fallback planes of the unsupported and null entries are in world; and the
\* loads in flight, both types together, never exceed 8.
HasNode(i) == \E n \in DOMAIN world : world[n].asset = i

C20_ModelsBeforeImages ==
    page = "inventory" =>
        /\ mainPc \notin {"models", "images", "done"} => promises = <<>>
        /\ mainPc = "models" =>
                /\ items = modelAssets(assets)
                /\ \A p \in DOMAIN promises : promises[p].loader = "model"
        /\ mainPc \in {"images", "done"} =>
                /\ items = imageAssets(assets)
                /\ PendingLoads("model") = 0
                /\ \A i \in SeqRange(modelAssets(assets)) : HasNode(i)
        /\ promises # <<>> =>
                \A i \in SeqRange(otherAssets(assets)) :
                    \E n \in DOMAIN world : world[n] = FallbackNode(i)
        /\ PendingLoads("model") + PendingLoads("texture")
                <= Max(MODEL_CONCURRENCY, IMAGE_CONCURRENCY)
        /\ InFlight <= IF mainPc = "models" THEN MODEL_CONCURRENCY
                       ELSE IMAGE_CONCURRENCY

\* the model of the manifest is placed, and the texture of its image is
\* being loaded
C20_Witness ==
    /\ mainPc = "images"
    /\ Len(promises) = 2
    /\ promises[1].loader = "model"
    /\ promises[1].state = "fulfilled"
    /\ promises[2].loader = "texture"
    /\ promises[2].state = "pending"
    /\ Len(world) = 1
    /\ world[1].kind = "model"

====
